---- MODULE Spec2Model ----
(***************************************************************************)
(* A model of rust_lzss (src/src/lib.rs): decompress, decompress_lzss10    *)
(* and decompress_lzss11.                                                  *)
(*                                                                         *)
(* The compressed stream is a `T: Read + Seek` the decoder only ever reads *)
(* forward.  Every read either delivers the next byte(s) or fails with     *)
(* UnexpectedEof; `data` holds the bytes delivered so far, so the stream   *)
(* that was decoded is `data` followed by nothing (when a read failed) or  *)
(* by bytes the decoder never looked at.  The program is sequential: `pc`  *)
(* is its position, one action per read site, loop head, copy loop and     *)
(* return.                                                                 *)
(*                                                                         *)
(* Two properties of the build decide what the code does and are fixed per *)
(* run: the target's byte order (transmute of [u8; 4] to u32, line 35) and *)
(* whether integer overflow checks are compiled in (debug: panic, release: *)
(* wrap; lines 98-103).                                                    *)
(***************************************************************************)
EXTENDS Integers, Sequences, FiniteSets, TLC

VARIABLES
    data,             \* bytes the stream has delivered so far (cursor history)
    big_endian,       \* build: the target is big-endian
    overflow_checks,  \* build: arithmetic overflow panics (debug profile)
    pc,               \* position in the program
    lz_type,          \* decompress: lz_type
    data_size,        \* decompress: data_size
    size,             \* decoder parameter `size`
    decompress_data,  \* decoder: the output Vec<u8>
    b,                \* decoder: the current control byte
    idx,              \* decoder: 1-based position of `bit` in `bits` (0: no control byte yet)
    val,              \* decoder: val (u16 in LZSS10, u8 in LZSS11)
    indicator,        \* LZSS11: indicator
    count,            \* decoder: count
    disp,             \* decoder: disp
    result,           \* "none" while running, then "Ok", "Err" or "panic"
    error             \* the ErrorKind of an Err result, the check behind a panic

vars == <<data, big_endian, overflow_checks, pc, lz_type, data_size, size,
          decompress_data, b, idx, val, indicator, count, disp, result, error>>

(***************************************************************************)
(* Bounds of the model.                                                    *)
(***************************************************************************)
\* The stream delivers at most MaxStream bytes.
MaxStream == 15
\* A back-reference copy is followed only while the output stays within MaxOut bytes.
MaxOut == 300

(***************************************************************************)
(* The bytes the stream may deliver at each read site.                     *)
(***************************************************************************)
TypeBytes == {0, 16, 17}            \* 0x00, 0x10, 0x11
SizeFields == {<<0, 0, 0>>, <<1, 0, 0>>, <<4, 0, 0>>, <<9, 0, 0>>, <<4, 1, 1>>}
CtrlBytes == {0, 48, 128}           \* 0x00, 0x30, 0x80
LitBytes  == {97, 98}               \* 'a', 'b'
WordHiBytes == {0, 16, 241}         \* 0x00, 0x10, 0xF1
WordLoBytes == {0, 1, 3}
ValBytes  == {0, 16, 31, 240}       \* 0x00, 0x10, 0x1F, 0xF0
ExtBytes  == {0, 240, 255}          \* 0x00, 0xF0, 0xFF
DispBytes == {0, 1, 3}

(***************************************************************************)
(* Integer helpers.                                                        *)
(***************************************************************************)
RECURSIVE Pow2(_)
Pow2(n) == IF n = 0 THEN 1 ELSE 2 * Pow2(n - 1)

\* x >> n on an unsigned integer
Shr(x, n) == x \div Pow2(n)

\* x << n on a u16: the bits shifted out are dropped
ShlU16(x, n) == (x * Pow2(n)) % 65536

\* x & (2^n - 1)
LowBits(x, n) == x % Pow2(n)

\* a + c on u16: the wrapped value and whether the addition overflowed
AddU16(a, c) == [value |-> (a + c) % 65536, overflow |-> a + c > 65535]

\* mutant of Bits: the flags taken least significant bit first
BitsLsbFirst(byte) == [i \in 1..8 |-> Shr(byte, i - 1) % 2 = 1]

\* BitVec::from_bytes(&[byte]): bit 1 of the vector is the most significant bit
Bits(byte) == [i \in 1..8 |-> Shr(byte, 8 - i) % 2 = 1]

\* transmute::<[u8; 4], u32>: the bytes in memory order, read in the target's byte order
Transmute(bytes, be) ==
    IF be
    THEN bytes[1] * 16777216 + bytes[2] * 65536 + bytes[3] * 256 + bytes[4]
    ELSE bytes[1] + bytes[2] * 256 + bytes[3] * 65536 + bytes[4] * 16777216

\* mutant of CopyOne: the source index is one byte too far forward
CopyOneOffByOne(out, d) ==
    IF d > Len(out) THEN [out |-> out, panic |-> TRUE]
    ELSE [out |-> Append(out, out[Len(out) - d + 1 + (IF d > 1 THEN 1 ELSE 0)]), panic |-> FALSE]

\* one iteration of the copy loop: let len = decompress_data.len();
\* let copy_data = decompress_data[len - disp as usize]; decompress_data.push(copy_data).
\* A disp larger than len makes `len - disp` underflow (debug: panic on the
\* subtraction; release: it wraps to an index out of bounds, panic on the indexing).
CopyOne(out, d) ==
    IF d > Len(out) THEN [out |-> out, panic |-> TRUE]
    ELSE [out |-> Append(out, out[Len(out) - d + 1]), panic |-> FALSE]

\* for _ in 0..n { one iteration }: n iterations are the first n \div 2 followed by
\* the rest (the split only keeps the evaluation shallow)
RECURSIVE CopyLoop(_, _, _)
CopyLoop(out, d, n) ==
    IF n = 0 THEN [out |-> out, panic |-> FALSE]
    ELSE IF n = 1 THEN CopyOne(out, d)
    ELSE LET h == CopyLoop(out, d, n \div 2)
         IN  IF h.panic THEN h ELSE CopyLoop(h.out, d, n - (n \div 2))

(***************************************************************************)
(* Initial state: decompress is entered with a fresh stream.               *)
(***************************************************************************)
Init ==
    /\ data = <<>>
    /\ big_endian \in BOOLEAN
    /\ overflow_checks \in BOOLEAN
    /\ pc = "read_type"
    /\ lz_type = 0
    /\ data_size = 0
    /\ size = 0
    /\ decompress_data = <<>>
    /\ b = 0
    /\ idx = 0
    /\ val = 0
    /\ indicator = 0
    /\ count = 0
    /\ disp = 0
    /\ result = "none"
    /\ error = "none"

\* the stream can still deliver n more bytes
CanRead(n) == Len(data) + n <= MaxStream

\* mutant of EofReturn: the end of the stream is taken as the end of the data
EofReturnsOk ==
    /\ pc' = "done"
    /\ result' = "Ok"
    /\ error' = "none"

\* `?` on a failed read: the function returns Err(UnexpectedEof)
EofReturn ==
    /\ pc' = "done"
    /\ result' = "Err"
    /\ error' = "UnexpectedEof"

\* a panic unwinds out of decompress; `error` keeps which check panicked
Panic(msg) ==
    /\ pc' = "done"
    /\ result' = "panic"
    /\ error' = msg

(***************************************************************************)
(* decompress                                                              *)
(***************************************************************************)
\* let lz_type = data.read_u8()?;
ReadType ==
    /\ pc = "read_type"
    /\ \/ /\ EofReturn
          /\ UNCHANGED <<data, lz_type>>
       \/ /\ CanRead(1)
          /\ \E x \in TypeBytes :
                /\ data' = Append(data, x)
                /\ lz_type' = x
          /\ pc' = "read_size"
          /\ UNCHANGED <<result, error>>
    /\ UNCHANGED <<big_endian, overflow_checks, data_size, size, decompress_data,
                   b, idx, val, indicator, count, disp>>

\* data.read_exact(&mut data_size_tmp[0..3])?; transmute
ReadSize ==
    /\ pc = "read_size"
    /\ \/ /\ EofReturn
          /\ UNCHANGED <<data, data_size>>
       \/ /\ CanRead(3)
          /\ \E s \in SizeFields :
                /\ data' = data \o s
                /\ data_size' = Transmute(s \o <<0>>, big_endian)
          /\ pc' = "match"
          /\ UNCHANGED <<result, error>>
    /\ UNCHANGED <<big_endian, overflow_checks, lz_type, size, decompress_data,
                   b, idx, val, indicator, count, disp>>

\* mutant of Dispatch: every tag other than 0x11 falls through to the LZSS10 decoder
DispatchDefault10 ==
    /\ pc = "match"
    /\ pc' = IF lz_type = 17 THEN "while11" ELSE "while10"
    /\ size' = data_size
    /\ UNCHANGED <<data, big_endian, overflow_checks, lz_type, data_size,
                   decompress_data, b, idx, val, indicator, count, disp, result, error>>

\* match lz_type { 0x10 => .., 0x11 => .., _ => Err(InvalidInput) }
Dispatch ==
    /\ pc = "match"
    /\ IF lz_type = 16
       THEN pc' = "while10" /\ size' = data_size /\ UNCHANGED <<result, error>>
       ELSE IF lz_type = 17
       THEN pc' = "while11" /\ size' = data_size /\ UNCHANGED <<result, error>>
       ELSE /\ pc' = "done"
            /\ result' = "Err"
            /\ error' = "InvalidInput"
            /\ UNCHANGED size
    /\ UNCHANGED <<data, big_endian, overflow_checks, lz_type, data_size,
                   decompress_data, b, idx, val, indicator, count, disp>>

(***************************************************************************)
(* decompress_lzss10                                                       *)
(***************************************************************************)
\* let disp_extra = 1;
disp_extra == 1

\* while decompress_data.len() < size
While10 ==
    /\ pc = "while10"
    /\ pc' = IF Len(decompress_data) < size THEN "ctrl10" ELSE "ret10"
    /\ UNCHANGED <<data, big_endian, overflow_checks, lz_type, data_size, size,
                   decompress_data, b, idx, val, indicator, count, disp, result, error>>

\* let b = data.read_u8()?; let bits = BitVec::from_bytes(&[b]); for bit in bits.iter()
Control10 ==
    /\ pc = "ctrl10"
    /\ \/ /\ EofReturn
          /\ UNCHANGED <<data, b, idx>>
       \/ /\ CanRead(1)
          /\ \E x \in CtrlBytes :
                /\ data' = Append(data, x)
                /\ b' = x
          /\ idx' = 1
          /\ pc' = "bit10"
          /\ UNCHANGED <<result, error>>
    /\ UNCHANGED <<big_endian, overflow_checks, lz_type, data_size, size,
                   decompress_data, val, indicator, count, disp>>

\* mutant of AfterDecision10: the break check is `size < len`
AfterDecision10Late(out) ==
    IF size < Len(out) THEN pc' = "while10" /\ idx' = idx
    ELSE IF idx = 8 THEN pc' = "while10" /\ idx' = idx
    ELSE pc' = "bit10" /\ idx' = idx + 1

\* if size <= decompress_data.len() { break; } and the advance of `for bit in bits.iter()`:
\* the position after a decision that left the output `out`
AfterDecision10(out) ==
    IF size <= Len(out) THEN pc' = "while10" /\ idx' = idx
    ELSE IF idx = 8 THEN pc' = "while10" /\ idx' = idx
    ELSE pc' = "bit10" /\ idx' = idx + 1

\* if bit { let val = data.read_u16::<BigEndian>()?; count, disp }
Ref10 ==
    /\ pc = "bit10"
    /\ Bits(b)[idx]
    /\ \/ /\ EofReturn
          /\ UNCHANGED <<data, val, count, disp>>
       \/ /\ CanRead(2)
          /\ \E hi \in WordHiBytes, lo \in WordLoBytes :
                /\ data' = data \o <<hi, lo>>
                /\ val' = hi * 256 + lo
          /\ count' = Shr(val', 12) + 3
          /\ disp' = LowBits(val', 12) + disp_extra
          /\ pc' = "copy10"
          /\ UNCHANGED <<result, error>>
    /\ UNCHANGED <<big_endian, overflow_checks, lz_type, data_size, size,
                   decompress_data, b, idx, indicator>>

\* for _ in 0..count { push(decompress_data[len - disp]) }, then the break check
Copy10 ==
    /\ pc = "copy10"
    /\ (count > 0 /\ disp > Len(decompress_data)) \/ Len(decompress_data) + count <= MaxOut
    /\ LET r == CopyLoop(decompress_data, disp, count)
       IN  IF r.panic
           THEN Panic("index out of bounds") /\ UNCHANGED <<decompress_data, idx>>
           ELSE /\ decompress_data' = r.out
                /\ AfterDecision10(r.out)
                /\ UNCHANGED <<result, error>>
    /\ UNCHANGED <<data, big_endian, overflow_checks, lz_type, data_size, size,
                   b, val, indicator, count, disp>>

\* else { decompress_data.push(data.read_u8()?); }, then the break check
Lit10 ==
    /\ pc = "bit10"
    /\ ~Bits(b)[idx]
    /\ \/ /\ EofReturn
          /\ UNCHANGED <<data, decompress_data, idx>>
       \/ /\ CanRead(1)
          /\ \E x \in LitBytes :
                /\ data' = Append(data, x)
                /\ decompress_data' = Append(decompress_data, x)
          /\ AfterDecision10(decompress_data')
          /\ UNCHANGED <<result, error>>
    /\ UNCHANGED <<big_endian, overflow_checks, lz_type, data_size, size,
                   b, val, indicator, count, disp>>

\* if size <= decompress_data.len() { Ok(decompress_data) } else { Err(InvalidData) }
Return10 ==
    /\ pc = "ret10"
    /\ pc' = "done"
    /\ IF size <= Len(decompress_data)
       THEN result' = "Ok" /\ error' = "none"
       ELSE result' = "Err" /\ error' = "InvalidData"
    /\ UNCHANGED <<data, big_endian, overflow_checks, lz_type, data_size, size,
                   decompress_data, b, idx, val, indicator, count, disp>>

(***************************************************************************)
(* decompress_lzss11                                                       *)
(***************************************************************************)
\* while decompress_data.len() < size
While11 ==
    /\ pc = "while11"
    /\ pc' = IF Len(decompress_data) < size THEN "ctrl11" ELSE "ret11"
    /\ UNCHANGED <<data, big_endian, overflow_checks, lz_type, data_size, size,
                   decompress_data, b, idx, val, indicator, count, disp, result, error>>

\* let b = data.read_u8()?; let bits = BitVec::from_bytes(&[b]); for bit in bits.iter()
Control11 ==
    /\ pc = "ctrl11"
    /\ \/ /\ EofReturn
          /\ UNCHANGED <<data, b, idx>>
       \/ /\ CanRead(1)
          /\ \E x \in CtrlBytes :
                /\ data' = Append(data, x)
                /\ b' = x
          /\ idx' = 1
          /\ pc' = "bit11"
          /\ UNCHANGED <<result, error>>
    /\ UNCHANGED <<big_endian, overflow_checks, lz_type, data_size, size,
                   decompress_data, val, indicator, count, disp>>

\* the break check and the advance of the for loop, as in decompress_lzss10
AfterDecision11(out) ==
    IF size <= Len(out) THEN pc' = "while11" /\ idx' = idx
    ELSE IF idx = 8 THEN pc' = "while11" /\ idx' = idx
    ELSE pc' = "bit11" /\ idx' = idx + 1

\* mutant of FirstCount: the short form forgets `count += 1`
FirstCountNoBias(v, ind) ==
    IF ind = 0 THEN ShlU16(v, 4)
    ELSE IF ind = 1 THEN ShlU16(LowBits(v, 4), 12)
    ELSE ind

\* count as each arm of `match indicator` leaves it before the arm's first read
FirstCount(v, ind) ==
    IF ind = 0 THEN ShlU16(v, 4)
    ELSE IF ind = 1 THEN ShlU16(LowBits(v, 4), 12)
    ELSE ind + 1

\* if bit { let mut val = data.read_u8()?; let indicator = val >> 4; match indicator
Val11 ==
    /\ pc = "bit11"
    /\ Bits(b)[idx]
    /\ \/ /\ EofReturn
          /\ UNCHANGED <<data, val, indicator, count>>
       \/ /\ CanRead(1)
          /\ \E x \in ValBytes :
                /\ data' = Append(data, x)
                /\ val' = x
          /\ indicator' = Shr(val', 4)
          /\ count' = FirstCount(val', indicator')
          /\ pc' = IF indicator' = 0 THEN "ext0"
                   ELSE IF indicator' = 1 THEN "ext1a" ELSE "disp11"
          /\ UNCHANGED <<result, error>>
    /\ UNCHANGED <<big_endian, overflow_checks, lz_type, data_size, size,
                   decompress_data, b, idx, disp>>

\* 0 => { val = data.read_u8()?; count += u16::from(val) >> 4; count += 0x11 }
Ext0 ==
    /\ pc = "ext0"
    /\ \/ /\ EofReturn
          /\ UNCHANGED <<data, val, count>>
       \/ /\ CanRead(1)
          /\ \E x \in ExtBytes :
                /\ data' = Append(data, x)
                /\ val' = x
          /\ LET s1 == AddU16(count, Shr(val', 4))
                 s2 == AddU16(s1.value, 17)
             IN  IF overflow_checks /\ (s1.overflow \/ s2.overflow)
                 THEN Panic("add with overflow") /\ UNCHANGED count
                 ELSE /\ count' = s2.value
                      /\ pc' = "disp11"
                      /\ UNCHANGED <<result, error>>
    /\ UNCHANGED <<big_endian, overflow_checks, lz_type, data_size, size,
                   decompress_data, b, idx, indicator, disp>>

\* 1 => { val = data.read_u8()?; count += u16::from(val) << 4;
Ext1a ==
    /\ pc = "ext1a"
    /\ \/ /\ EofReturn
          /\ UNCHANGED <<data, val, count>>
       \/ /\ CanRead(1)
          /\ \E x \in ExtBytes :
                /\ data' = Append(data, x)
                /\ val' = x
          /\ LET s1 == AddU16(count, ShlU16(val', 4))
             IN  IF overflow_checks /\ s1.overflow
                 THEN Panic("add with overflow") /\ UNCHANGED count
                 ELSE /\ count' = s1.value
                      /\ pc' = "ext1b"
                      /\ UNCHANGED <<result, error>>
    /\ UNCHANGED <<big_endian, overflow_checks, lz_type, data_size, size,
                   decompress_data, b, idx, indicator, disp>>

\*        val = data.read_u8()?; count += u16::from(val) >> 4; count += 0x111; }
Ext1b ==
    /\ pc = "ext1b"
    /\ \/ /\ EofReturn
          /\ UNCHANGED <<data, val, count>>
       \/ /\ CanRead(1)
          /\ \E x \in ExtBytes :
                /\ data' = Append(data, x)
                /\ val' = x
          /\ LET s1 == AddU16(count, Shr(val', 4))
                 s2 == AddU16(s1.value, 273)
             IN  IF overflow_checks /\ (s1.overflow \/ s2.overflow)
                 THEN Panic("add with overflow") /\ UNCHANGED count
                 ELSE /\ count' = s2.value
                      /\ pc' = "disp11"
                      /\ UNCHANGED <<result, error>>
    /\ UNCHANGED <<big_endian, overflow_checks, lz_type, data_size, size,
                   decompress_data, b, idx, indicator, disp>>

\* let mut disp: u16 = (u16::from(val) & 0xF) << 8; val = data.read_u8()?;
\* disp += u16::from(val) + 1;
Disp11 ==
    /\ pc = "disp11"
    /\ \/ /\ EofReturn
          /\ UNCHANGED <<data, val, disp>>
       \/ /\ CanRead(1)
          /\ \E x \in DispBytes :
                /\ data' = Append(data, x)
                /\ val' = x
          /\ LET s1 == AddU16(val', 1)
                 s2 == AddU16(ShlU16(LowBits(val, 4), 8), s1.value)
             IN  IF overflow_checks /\ (s1.overflow \/ s2.overflow)
                 THEN Panic("add with overflow") /\ UNCHANGED disp
                 ELSE /\ disp' = s2.value
                      /\ pc' = "copy11"
                      /\ UNCHANGED <<result, error>>
    /\ UNCHANGED <<big_endian, overflow_checks, lz_type, data_size, size,
                   decompress_data, b, idx, indicator, count>>

\* for _ in 0..count { push(decompress_data[len - disp]) }, then the break check
Copy11 ==
    /\ pc = "copy11"
    /\ (count > 0 /\ disp > Len(decompress_data)) \/ Len(decompress_data) + count <= MaxOut
    /\ LET r == CopyLoop(decompress_data, disp, count)
       IN  IF r.panic
           THEN Panic("index out of bounds") /\ UNCHANGED <<decompress_data, idx>>
           ELSE /\ decompress_data' = r.out
                /\ AfterDecision11(r.out)
                /\ UNCHANGED <<result, error>>
    /\ UNCHANGED <<data, big_endian, overflow_checks, lz_type, data_size, size,
                   b, val, indicator, count, disp>>

\* else { decompress_data.push(data.read_u8()?); }, then the break check
Lit11 ==
    /\ pc = "bit11"
    /\ ~Bits(b)[idx]
    /\ \/ /\ EofReturn
          /\ UNCHANGED <<data, decompress_data, idx>>
       \/ /\ CanRead(1)
          /\ \E x \in LitBytes :
                /\ data' = Append(data, x)
                /\ decompress_data' = Append(decompress_data, x)
          /\ AfterDecision11(decompress_data')
          /\ UNCHANGED <<result, error>>
    /\ UNCHANGED <<big_endian, overflow_checks, lz_type, data_size, size,
                   b, val, indicator, count, disp>>

\* if size <= decompress_data.len() { Ok(decompress_data) } else { Err(InvalidData) }
Return11 ==
    /\ pc = "ret11"
    /\ pc' = "done"
    /\ IF size <= Len(decompress_data)
       THEN result' = "Ok" /\ error' = "none"
       ELSE result' = "Err" /\ error' = "InvalidData"
    /\ UNCHANGED <<data, big_endian, overflow_checks, lz_type, data_size, size,
                   decompress_data, b, idx, val, indicator, count, disp>>

Next ==
    \/ ReadType
    \/ ReadSize
    \/ Dispatch
    \/ While10
    \/ Control10
    \/ Ref10
    \/ Copy10
    \/ Lit10
    \/ Return10
    \/ While11
    \/ Control11
    \/ Val11
    \/ Ext0
    \/ Ext1a
    \/ Ext1b
    \/ Disp11
    \/ Copy11
    \/ Lit11
    \/ Return11

Spec == Init /\ [][Next]_vars

(***************************************************************************)
(* Vocabulary of the properties.                                           *)
(***************************************************************************)
Pcs10 == {"while10", "ctrl10", "bit10", "copy10", "ret10"}
Pcs11 == {"while11", "ctrl11", "bit11", "ext0", "ext1a", "ext1b", "disp11", "copy11", "ret11"}

\* positions at which the next step reads the stream
DecoderReadPcs == {"ctrl10", "bit10", "ctrl11", "bit11", "ext0", "ext1a", "ext1b", "disp11"}
ReadPcs == {"read_type", "read_size"} \cup DecoderReadPcs

\* the header has been read, names a decoder, and that decoder has been entered
DecoderEntered == Len(data) >= 4 /\ data[1] \in {16, 17} /\ pc \notin {"read_size", "match"}

\* the last byte the stream delivered
LastByte(d) == d[Len(d)]

\* the bit of weight 2^k of a byte
BitOf(byte, k) == (byte \div Pow2(k)) % 2

(***************************************************************************)
(* C1: whenever the decode returns Ok, the returned buffer's length equals *)
(* target_size exactly, also when the last back-reference is longer than   *)
(* what is still missing.                                                  *)
(***************************************************************************)
\* C1: an Ok result holds exactly target_size bytes
C1_OkLengthEqualsTargetSize ==
    result = "Ok" => Len(decompress_data) = size

(***************************************************************************)
(* C2: a back-reference whose distance exceeds the current output length   *)
(* makes the decode return an InvalidBackReference error value: no panic.  *)
(***************************************************************************)
\* C2: the copy of a back-reference reaching before the output's start ends in
\* Err(InvalidBackReference)
C2_BadDistanceReturnsError ==
    [][(pc \in {"copy10", "copy11"} /\ disp > Len(decompress_data))
          => (result' = "Err" /\ error' = "InvalidBackReference")]_vars

(***************************************************************************)
(* C3: when the stream ends before a byte the decoder requires (a header   *)
(* byte, a control byte, a literal, any byte of a back-reference token),   *)
(* decompress returns an error, and no Ok result is ever shorter than      *)
(* target_size.                                                            *)
(***************************************************************************)
\* C3: a read the stream cannot serve ends the call in Err(UnexpectedEof), and an
\* Ok result is never shorter than target_size
C3_TruncatedStreamIsError ==
    /\ [](result = "Ok" => Len(decompress_data) >= size)
    /\ [][(pc \in ReadPcs /\ data' = data)
             => (result' = "Err" /\ error' = "UnexpectedEof")]_vars

\* a stream cut inside its token bytes, with part of the output already decoded
C3_Witness ==
    /\ pc = "done"
    /\ result = "Err"
    /\ error = "UnexpectedEof"
    /\ Len(data) >= 7
    /\ Len(decompress_data) > 0
    /\ Len(decompress_data) < size

(***************************************************************************)
(* C4: a stream of at least 4 bytes whose first byte is neither 0x10 nor   *)
(* 0x11 is rejected with an invalid-header error after exactly the 4       *)
(* header bytes: no decoder runs, no token byte is read, no output byte is *)
(* produced, whatever the size field holds.                                *)
(***************************************************************************)
\* C4: an unknown tag is rejected right after the 4 header bytes
C4_UnknownTagRejectedAfterHeader ==
    (Len(data) >= 1 /\ data[1] \notin {16, 17}) =>
        /\ pc \in {"read_size", "match", "done"}
        /\ Len(data) <= 4
        /\ decompress_data = <<>>
        /\ (pc = "done" /\ Len(data) = 4) => (result = "Err" /\ error = "InvalidInput")
        /\ result # "Ok"

\* an unknown tag followed by a nonzero size field has been rejected
C4_Witness ==
    /\ pc = "done"
    /\ data = <<0, 4, 1, 1>>
    /\ result = "Err"
    /\ error = "InvalidInput"

(***************************************************************************)
(* C5: for a stream t, s0, s1, s2, ... with t in {0x10, 0x11}, the decoder *)
(* selected by t runs with target_size = s0 + 256*s1 + 65536*s2 (so below  *)
(* 2^24), and the byte at offset 4 is the first control byte.              *)
(***************************************************************************)
\* C5: the tag selects the decoder, the size is the 24-bit little-endian field
C5_HeaderSelectsDecoderAndSize ==
    DecoderEntered =>
        /\ size = data[2] + 256 * data[3] + 65536 * data[4]
        /\ size < 16777216
        /\ (pc # "done" /\ data[1] = 16) => pc \in Pcs10
        /\ (pc # "done" /\ data[1] = 17) => pc \in Pcs11
        /\ (Len(data) = 5 /\ pc \in {"bit10", "bit11"}) => (b = data[5] /\ idx = 1)

(***************************************************************************)
(* C6: an LZSS10 back-reference is one big-endian 16-bit word val with     *)
(* length = (val >> 12) + 3 in 3..18 and distance = (val & 0xFFF) + 1 in   *)
(* 1..4096; when distance <= n, the output length before the token, the    *)
(* copy appends exactly `length` bytes, each equal to the byte `distance`  *)
(* positions before it (also when distance < length), and leaves the first *)
(* n bytes unchanged.                                                      *)
(***************************************************************************)
C6_Token10 ==
    pc = "copy10" =>
        LET p == Len(data)
        IN  /\ val = 256 * data[p - 1] + data[p]
            /\ count = (val \div 4096) + 3
            /\ count \in 3..18
            /\ disp = (val % 4096) + 1
            /\ disp \in 1..4096

C6_Copy10 ==
    (pc = "copy10" /\ disp <= Len(decompress_data)) =>
        LET n == Len(decompress_data)
        IN  /\ Len(decompress_data') = n + count
            /\ SubSeq(decompress_data', 1, n) = decompress_data
            /\ \A i \in (n + 1)..(n + count) :
                  decompress_data'[i] = decompress_data'[i - disp]

\* C6: the LZSS10 token's fields and its byte-by-byte copy
C6_Lzss10BackReference ==
    /\ []C6_Token10
    /\ [][C6_Copy10]_vars

\* an overlapping copy (distance 2, length 3) after the literals a, b
C6_Witness ==
    /\ lz_type = 16
    /\ pc = "bit10"
    /\ count = 3
    /\ disp = 2
    /\ decompress_data = <<97, 98, 97, 98, 97>>

(***************************************************************************)
(* C7: an LZSS11 back-reference is decoded by the high nibble (indicator)  *)
(* of its first byte: indicator 0 takes 3 bytes and has length =           *)
(* (val << 4) + (next >> 4) + 0x11; indicator 1 takes 4 bytes; indicator   *)
(* 2..15 takes 2 bytes and has length = indicator + 1.  In all forms       *)
(* distance = ((last & 0xF) << 8) + next + 1 in 1..4096, and the copy      *)
(* appends exactly `length` bytes, each equal to the byte `distance`       *)
(* positions before it.                                                    *)
(***************************************************************************)
\* the number of stream bytes of the token whose copy is about to run
C7_TokenBytes == IF indicator = 0 THEN 3 ELSE IF indicator = 1 THEN 4 ELSE 2

C7_Token11 ==
    pc = "copy11" =>
        LET p == Len(data)
            first == data[p - C7_TokenBytes + 1]
            last == data[p - 1]
            next == data[p]
        IN  /\ indicator = first \div 16
            /\ indicator = 0 => count = first * 16 + (last \div 16) + 17
            /\ indicator >= 2 => (count = indicator + 1 /\ last = first)
            /\ disp = (last % 16) * 256 + next + 1
            /\ disp \in 1..4096

\* the reads of one token: first byte, then 1 (indicator 0), 2 (indicator 1) or 0
\* length bytes, then the distance byte; each step reads exactly one byte
C7_Flow11 ==
    /\ pc' = "ext0" => (pc = "bit11" /\ indicator' = 0)
    /\ pc' = "ext1a" => (pc = "bit11" /\ indicator' = 1)
    /\ pc' = "ext1b" => pc = "ext1a"
    /\ (pc' = "disp11" /\ pc = "bit11") => indicator' \in 2..15
    /\ pc' = "disp11" => pc \in {"bit11", "ext0", "ext1b"}
    /\ pc' = "copy11" => pc = "disp11"
    /\ pc' \in {"ext0", "ext1a", "ext1b", "disp11", "copy11"} =>
          (Len(data') = Len(data) + 1 /\ decompress_data' = decompress_data)

C7_Copy11 ==
    (pc = "copy11" /\ disp <= Len(decompress_data)) =>
        LET n == Len(decompress_data)
        IN  /\ Len(decompress_data') = n + count
            /\ SubSeq(decompress_data', 1, n) = decompress_data
            /\ \A i \in (n + 1)..(n + count) :
                  decompress_data'[i] = decompress_data'[i - disp]

\* C7: the LZSS11 token's three forms, its distance and its byte-by-byte copy
C7_Lzss11BackReference ==
    /\ []C7_Token11
    /\ [][C7_Flow11 /\ C7_Copy11]_vars

\* an extended-length token 00 F0 01 (length 32, distance 2) copied after a, b
C7_Witness ==
    /\ lz_type = 17
    /\ pc = "bit11"
    /\ indicator = 0
    /\ count = 32
    /\ disp = 2
    /\ Len(decompress_data) = 34
    /\ SubSeq(decompress_data, 1, 5) = <<97, 98, 97, 98, 97>>

(***************************************************************************)
(* C8: the flags of a control byte b are applied most significant bit      *)
(* first: the k-th decision after b (k = 0..7) is a back-reference iff bit *)
(* 7 - k of b is 1, and otherwise a literal that consumes one stream byte  *)
(* and appends it unchanged.  So a token stream whose control bytes are    *)
(* all 0x00 decodes to its first target_size literal bytes, in order.      *)
(***************************************************************************)
C8_Decision ==
    pc \in {"bit10", "bit11"} =>
        LET k == idx - 1
            eof == data' = data /\ result' = "Err" /\ decompress_data' = decompress_data
        IN  IF BitOf(b, 7 - k) = 1
            THEN \/ eof
                 \/ /\ pc' \in {"copy10", "ext0", "ext1a", "disp11"}
                    /\ decompress_data' = decompress_data
            ELSE \/ eof
                 \/ /\ Len(data') = Len(data) + 1
                    /\ decompress_data' = Append(decompress_data, LastByte(data'))
                    /\ pc' \in {"bit10", "while10", "bit11", "while11"}

\* the token bytes of the stream; when all control bytes are 0x00 every 9th of
\* them, from the first, is a control byte, and the i-th literal follows i bytes
\* and the control bytes of the groups up to its own
C8_TokenStream == SubSeq(data, 5, Len(data))
C8_AllControlZero == \A j \in 1..Len(C8_TokenStream) : (j % 9 = 1) => C8_TokenStream[j] = 0
C8_LiteralAt(i) == C8_TokenStream[i + ((i - 1) \div 8) + 1]

C8_AllLiteral ==
    (DecoderEntered /\ result = "Ok" /\ C8_AllControlZero) =>
        /\ Len(decompress_data) = size
        /\ decompress_data = [i \in 1..size |-> C8_LiteralAt(i)]

\* C8: flags are taken most significant bit first; all-literal streams decode to
\* their literals
C8_FlagsMsbFirst ==
    /\ []C8_AllLiteral
    /\ [][C8_Decision]_vars

\* nine literals decoded under two control bytes 0x00
C8_Witness ==
    /\ result = "Ok"
    /\ size = 9
    /\ Len(data) = 15
    /\ C8_AllControlZero
    /\ decompress_data = <<97, 98, 97, 98, 98, 97, 97, 98, 98>>

(***************************************************************************)
(* C9: a control byte is read only while the output is shorter than        *)
(* target_size and after all 8 flags of the previous control byte (if any) *)
(* were processed; no byte is read once the output has reached             *)
(* target_size: the remaining flags are dropped and the decoder returns.   *)
(* With target_size = 0 the decoder returns an empty buffer and reads no   *)
(* token byte.                                                             *)
(***************************************************************************)
C9_ReadSites ==
    /\ pc \in DecoderReadPcs => Len(decompress_data) < size
    /\ pc \in {"ctrl10", "ctrl11"} => (idx \in {0, 8} /\ (idx = 0 <=> Len(data) = 4))
    /\ (DecoderEntered /\ size = 0) =>
          /\ Len(data) = 4
          /\ decompress_data = <<>>
          /\ pc \in {"while10", "ret10", "while11", "ret11", "done"}
          /\ pc = "done" => result = "Ok"

C9_ReadStep ==
    (Len(data) >= 4 /\ data' # data) =>
        /\ Len(decompress_data) < size
        /\ pc \in DecoderReadPcs
        /\ (pc' \in {"bit10", "bit11"} /\ idx' = 1) => (pc \in {"ctrl10", "ctrl11"} /\ idx \in {0, 8})

C9_StopAtTarget ==
    (DecoderEntered /\ size <= Len(decompress_data) /\ pc # "done") =>
        (data' = data /\ decompress_data' = decompress_data /\
         pc' \in {"ret10", "ret11", "done"} /\ (pc' = "done" => result' = "Ok"))

\* C9: control bytes are read only when needed, nothing is read at target_size
C9_ControlByteDiscipline ==
    /\ []C9_ReadSites
    /\ [][C9_ReadStep /\ C9_StopAtTarget]_vars

\* the second control byte has just been read: 8 flags done, output still short
C9_Witness ==
    /\ pc = "bit10"
    /\ idx = 1
    /\ Len(data) = 14
    /\ Len(decompress_data) = 8
    /\ size = 9

(***************************************************************************)
(* C10: for an LZSS11 token whose first byte has high nibble 1, the number *)
(* of bytes copied is ((val & 0xF) << 12) + (byte2 << 4) + (byte3 >> 4) +  *)
(* 0x111 as a plain integer for all byte values: the 16-bit accumulator    *)
(* never overflows.                                                        *)
(***************************************************************************)
\* C10: the long form's count is the plain sum, the u16 accumulator never overflows
C10_LongFormCountIsPlainSum ==
    /\ error # "add with overflow"
    /\ (pc = "copy11" /\ indicator = 1) =>
          LET p == Len(data)
          IN  count = (data[p - 3] % 16) * 4096 + data[p - 2] * 16
                      + (data[p - 1] \div 16) + 273
====
